---- MODULE Spec2Model ----
(***************************************************************************)
(* fake-service: the synthetic load generator (load.NodeGenerator), the    *)
(* gRPC request handler (handlers.FakeServer.Handle) and the upstream      *)
(* worker pool the handler fans out with.                                  *)
(*                                                                         *)
(* Goroutines are interleaved at their accesses to shared memory           *)
(* (g.running, g.finished, the channel buffer, g.state).  A read of        *)
(* g.running sees the value of the latest write in the interleaving.       *)
(* An unrecovered panic in any goroutine ends the process: crashed.        *)
(***************************************************************************)
EXTENDS Integers, Sequences, FiniteSets, TLC

\* ------------------------------------------------------------- bounds
MaxCores == 2
MaxPeriod == 2
MaxTicks == 3
MaxURIs == 2
MaxWorkers == 2
MaxDelay == 3
MaxCalls == 3
MaxSeqTicks == 1

\* ------------------------------------------------- program constants
\* const TICK_INTERVAL = 500 * time.Millisecond, in milliseconds
TICK_INTERVAL == 500
\* make(chan struct{}, 2)
FinishedCap_Mutant == 2 - 1
FinishedCap == 2
\* var unitHundredsOfMicrosecond float64 = 1000
unitHundredsOfMicrosecond == 1000
\* http.StatusServiceUnavailable
StatusServiceUnavailable == 503
\* codes.Internal
CodeInternal == 13
\* math.Pow(2, 20)
MiB == 1048576

\* The requests (Handle invocations) a run can hold; they share the generator.
Requests == {1, 2}
\* The request of a run that serves a single one.
Handlers == {1}

\* ------------------------------------------------------ input domains
VarianceFuns == {"linear", "random", "sine", ""}
Variances == {0, 50, 100}
MemoryMBytes == {1}
\* rand.Float64() with the sign of rand.Intn(2) * -1, in quarters
RandQuarters == {-3, -1, 1, 3}
\* f.duration.Calculate() and time.Since(ts), in abstract time units
Durations == {0, 2}
Elapsed == {1, 3}

\* cpuPercentage is a float64: it is kept in two-thousandths of a percent, so
\* 2000 is 1 (percent), 200000 is 100 (percent) and an odd value gives a
\* run time with half a microsecond.
Percentages == {0, 1, 2000, 66667, 100000, 200000}
HalfPercent == 100000

\* The fields NewNodeGenerator is given.  cpuCoresCount is a float64 that the
\* code compares with 0 and converts with int(): its whole values are taken.
GenConfigs ==
    [cpuCoresCount : 0 .. MaxCores,
     cpuPercentage : Percentages,
     memoryMBytes : MemoryMBytes,
     memoryVariance : Variances,
     memoryVarianceFun : VarianceFuns,
     memoryVariancePeriod : 0 .. MaxPeriod]

\* An upstream URI: its scheme prefix and an identity.
URI(i) == [scheme |-> IF i % 2 = 1 THEN "http://" ELSE "grpc", id |-> i]
URIList(k) == [i \in 1 .. k |-> URI(i)]

SrvConfigs ==
    [upstreamURIs : {URIList(k) : k \in 0 .. MaxURIs},
     workerCount : 0 .. MaxWorkers]

\* errors.Injector.Do(): nil, or a code and an error
NoError == [Code |-> 0, Error |-> "nil"]
InjectorOutcomes == {NoError, [Code |-> 14, Error |-> "injected"]}

\* What the upstream operation (workerHTTP / workerGRPC) returns for a URI:
\* a response and no error, a response and an error, a nil response and an error.
OpOutcomes == {"ok", "err", "errnil"}

VARIABLES
    cfg,        \* the NodeGenerator's configuration fields (immutable)
    srv,        \* the FakeServer's upstreamURIs and workerCount (immutable)
    running,    \* g.running
    finished,   \* g.finished: the channel it refers to (0 is nil)
    chan,       \* the number of signals buffered in each channel made
    state,      \* g.state (NodeGeneratorState)
    lastDelta,  \* the value delta(g) returned in the latest allocation
    nTicks,     \* how many allocations the memory loops have recorded
    crashed,    \* the process ended on an unrecovered panic
    loopPc,     \* per generation: where the memory loop and the CPU supervisor are
    waitOn,     \* per generation: the channel a blocked receive waits on
    wrkPc,      \* per generation: where each duty-cycle worker is
    got,        \* per generation: the signals each loop has received
    pc,         \* per request: where Handle is
    sent,       \* per request: the signals its stop handle has sent
    loc,        \* per request: Handle's locals and its returned value
    wp,         \* per request: the worker pool
    now,        \* the clock time.Now() reads, in TICK_INTERVAL sleeps completed
    duty,       \* per generation: runMicrosecond and sleepMicrosecond of generateCPU
    hist,       \* per generation: when Generate was called, what its memory
                \* loop found in g.state in its first iteration
    rdy         \* the Ready handler

vars == <<cfg, srv, running, finished, chan, state, lastDelta, nTicks, crashed,
          loopPc, waitOn, wrkPc, got, pc, sent, loc, wp, now, duty, hist, rdy>>

genVars == <<running, finished, chan, state, lastDelta, nTicks,
             loopPc, waitOn, wrkPc, got, sent, now, duty, hist>>

\* ---------------------------------------------------------- arithmetic
Abs(a) == IF a < 0 THEN -a ELSE a

Min(a, b) == IF a < b THEN a ELSE b

\* int(float64(a) * float64(b) / float64(c)): the quotient truncated toward
\* zero, computed without an intermediate product beyond 32 bits.
MulDivTrunc(a, b, c) ==
    LET aa == Abs(a)
        bb == Abs(b)
        cc == Abs(c)
        q == (aa \div cc) * bb + ((aa % cc) * bb) \div cc
        neg == ((a < 0) /= (b < 0)) /= (c < 0)
    IN  IF neg THEN -q ELSE q

\* The results of int(NaN): 0 on arm64, the minimum integer on amd64 (here any
\* value below every allocation size).
NaNToInt == {0, -2147483647}

\* math.Sin(2 * math.Pi * t / n) in thousandths, truncated toward zero.
SinMilli(t, n) ==
    CASE n = 2 -> <<0, 0>>[t + 1]
      [] n = 4 -> <<0, 1000, 0, -1000>>[t + 1]
      [] n = 6 -> <<0, 866, 866, 0, -866, -866>>[t + 1]
      [] n = 8 -> <<0, 707, 1000, 707, 0, -707, -1000, -707>>[t + 1]

\* ------------------------------------------------------ NewNodeGenerator
\* maxVarianceBytes is a float64: it is kept in hundredths of a byte.
NewNodeGeneratorState(c) ==
    [baselineBytes |-> c.memoryMBytes * MiB,
     maxVarianceBytes |-> MiB * (c.memoryMBytes * c.memoryVariance),
     currentBytes |-> c.memoryMBytes * MiB,
     currentTick |-> 0,
     startTime |-> 0,
     lastTickTime |-> 0,
     ticksPerPeriod |-> (c.memoryVariancePeriod * 1000) \div TICK_INTERVAL]

\* ------------------------------------------------------ variance models
\* Each gives the set of values the function can return in state s.
varianceLinear_Mutant(s) ==
    IF s.ticksPerPeriod = 0
    THEN NaNToInt
    ELSE {MulDivTrunc(s.maxVarianceBytes,
                      2 * s.currentTick - s.ticksPerPeriod,
                      100 * s.ticksPerPeriod)}
varianceLinear(s) ==
    IF s.ticksPerPeriod - 1 = 0
    THEN NaNToInt
    ELSE {MulDivTrunc(s.maxVarianceBytes,
                      2 * s.currentTick - (s.ticksPerPeriod - 1),
                      100 * (s.ticksPerPeriod - 1))}

varianceRandom(s) ==
    {MulDivTrunc(s.maxVarianceBytes, r, 400) : r \in RandQuarters}

varianceSineWave(s) ==
    IF s.ticksPerPeriod = 0
    THEN NaNToInt
    ELSE {MulDivTrunc(s.maxVarianceBytes,
                      SinMilli(s.currentTick, s.ticksPerPeriod), 100000)}

varianceZero(s) == {0}

getVarianceFuncByName_Mutant(c) ==
    IF c.memoryVariance = 0 THEN "zero"
    ELSE CASE c.memoryVarianceFun = "linear" -> "linear"
           [] c.memoryVarianceFun = "random" -> "random"
           [] c.memoryVarianceFun = "sine" -> "sine"
           [] OTHER -> "linear"
getVarianceFuncByName(c) ==
    IF c.memoryVariance = 0 THEN "zero"
    ELSE CASE c.memoryVarianceFun = "linear" -> "linear"
           [] c.memoryVarianceFun = "random" -> "random"
           [] c.memoryVarianceFun = "sine" -> "sine"
           [] OTHER -> "zero"

delta(f, s) ==
    CASE f = "linear" -> varianceLinear(s)
      [] f = "random" -> varianceRandom(s)
      [] f = "sine" -> varianceSineWave(s)
      [] OTHER -> varianceZero(s)

\* g.tick(): callable only when ticksPerPeriod /= 0 (else it panics)
tick(s) == [s EXCEPT !.currentTick = (s.currentTick + 1) % s.ticksPerPeriod]

\* =============================================================== Ready
\* NewReady(logger, statusCode, delay): the readiness handler, with the time
\* elapsed since its creation, the calls of Handle made (at most MaxCalls are
\* counted), how many answered 503, when the first and the latest call were
\* made and the latest response.
NoResponse == [Code |-> 0, Body |-> ""]

NoReady ==
    [code |-> 0, delay |-> 0, elapsed |-> 0, calls |-> 0, unavailable |-> 0,
     firstAt |-> -1, lastAt |-> -1, last |-> NoResponse]

NewReady(statusCode, delay) == [NoReady EXCEPT !.code = statusCode, !.delay = delay]

ReadyCodes == {200, 204}

\* Ready.Handle: 503 and StartingMessage until the delay has elapsed, the
\* configured status code and OKMessage from then on.
ReadyResponse_Mutant(r) ==
    IF r.elapsed > r.delay
    THEN [Code |-> r.code, Body |-> "OKMessage"]
    ELSE [Code |-> StatusServiceUnavailable, Body |-> "StartingMessage"]
ReadyResponse(r) ==
    IF r.elapsed >= r.delay
    THEN [Code |-> r.code, Body |-> "OKMessage"]
    ELSE [Code |-> StatusServiceUnavailable, Body |-> "StartingMessage"]

ReadyHandleOf(r) ==
    [r EXCEPT !.calls = Min(@ + 1, MaxCalls),
              !.unavailable = IF ReadyResponse(r).Code = StatusServiceUnavailable
                              THEN Min(@ + 1, MaxCalls) ELSE @,
              !.firstAt = IF @ = -1 THEN r.elapsed ELSE @,
              !.lastAt = r.elapsed,
              !.last = ReadyResponse(r)]

\* ================================================================ Init
NoPool ==
    [state |-> "none", queue |-> <<>>, busy |-> <<>>, slots |-> <<>>,
     calls |-> <<>>, done |-> <<>>, failed |-> 0, err |-> "nil"]

NoLocals ==
    [generateCalls |-> 0, finishedCalls |-> 0,
     injectCalls |-> 0, er |-> NoError, upstreamError |-> "nil",
     rd |-> 0, slept |-> 0, sleeps |-> 0, children |-> <<>>,
     ret |-> [kind |-> "none", Code |-> 0, Error |-> "nil"]]

\* No duty cycle computed yet (halves of a microsecond otherwise).
NoDuty == [runMicrosecond |-> -1, sleepMicrosecond |-> -1]

NoHist == [genAt |-> -1, firstTick |-> -1, firstStart |-> -1, firstLast |-> -1]

InitOf(c, s, r) ==
    /\ cfg = c
    /\ srv = s
    /\ running = FALSE
    /\ finished = 0
    /\ chan = [h \in Requests |-> 0]
    /\ state = NewNodeGeneratorState(c)
    /\ lastDelta = 0
    /\ nTicks = 0
    /\ crashed = FALSE
    /\ loopPc = [h \in Requests |-> [mem |-> "none", sup |-> "none"]]
    /\ waitOn = [h \in Requests |-> [mem |-> 0, sup |-> 0, stop |-> 0]]
    /\ wrkPc = [h \in Requests |-> <<>>]
    /\ got = [h \in Requests |-> [mem |-> 0, sup |-> 0]]
    /\ pc = [h \in Requests |-> "idle"]
    /\ sent = [h \in Requests |-> 0]
    /\ loc = [h \in Requests |-> NoLocals]
    /\ wp = [h \in Requests |-> NoPool]
    /\ now = 0
    /\ duty = [h \in Requests |-> NoDuty]
    /\ hist = [h \in Requests |-> NoHist]
    /\ rdy = r

InitWith(c, s) == InitOf(c, s, NoReady)

\* ======================================================= NodeGenerator
\* Generate(), first statement: g.finished = make(chan struct{}, 2).
\* Handle calls it right after taking its start time.
GenerateMake(h) ==
    /\ ~crashed
    /\ UNCHANGED <<now, duty>>
    /\ pc[h] = "idle"
    /\ finished' = h
    /\ chan' = [chan EXCEPT ![h] = 0]
    /\ hist' = [hist EXCEPT ![h].genAt = now]
    /\ loc' = [loc EXCEPT ![h].generateCalls = @ + 1]
    /\ pc' = [pc EXCEPT ![h] = "generate"]
    /\ UNCHANGED <<cfg, srv, rdy, running, state, lastDelta, nTicks, crashed, loopPc,
                   waitOn, wrkPc, got, sent, wp>>

\* Generate(), the rest: g.running = true, then generateVaryingMemory() starts
\* the memory loop and generateCPU() starts the supervisor unless
\* cpuCoresCount == 0.  The handle is returned and deferred.
GenerateStart(h) ==
    /\ ~crashed
    /\ UNCHANGED <<now, duty, hist>>
    /\ pc[h] = "generate"
    /\ running' = TRUE
    /\ loopPc' = [loopPc EXCEPT ![h] =
                    [mem |-> "start",
                     sup |-> IF cfg.cpuCoresCount = 0 THEN "none" ELSE "start"]]
    /\ pc' = [pc EXCEPT ![h] = "inject"]
    /\ UNCHANGED <<cfg, srv, rdy, finished, chan, state, lastDelta, nTicks, crashed,
                   waitOn, wrkPc, got, sent, loc, wp>>

\* generateVaryingMemory: the memory loop goroutine begins,
\* g.state.startTime = time.Now().
MemStart_Mutant(h) ==
    /\ ~crashed
    /\ loopPc[h].mem = "start"
    /\ loopPc' = [loopPc EXCEPT ![h].mem = "check"]
    /\ UNCHANGED <<cfg, srv, rdy, running, finished, chan, state, lastDelta, nTicks,
                   crashed, waitOn, wrkPc, got, pc, sent, loc, wp, now, duty, hist>>
MemStart(h) ==
    /\ ~crashed
    /\ loopPc[h].mem = "start"
    /\ state' = [state EXCEPT !.startTime = now]
    /\ loopPc' = [loopPc EXCEPT ![h].mem = "check"]
    /\ UNCHANGED <<cfg, srv, rdy, running, finished, chan, lastDelta, nTicks, crashed,
                   waitOn, wrkPc, got, pc, sent, loc, wp, now, duty, hist>>

\* generateVaryingMemory: the loop condition, for g.running.  The bound on the
\* number of allocations holds the loop at its condition while g.running is true.
MemCheck(h) ==
    /\ ~crashed
    /\ UNCHANGED <<now, duty, hist>>
    /\ loopPc[h].mem = "check"
    /\ running => nTicks < MaxTicks
    /\ loopPc' = [loopPc EXCEPT ![h].mem = IF running THEN "body" ELSE "recv"]
    /\ UNCHANGED <<cfg, srv, rdy, running, finished, chan, state, lastDelta, nTicks,
                   crashed, waitOn, wrkPc, got, pc, sent, loc, wp>>

\* newMemLen := g.state.currentBytes + delta(g)
newMemLen(s, d) == s.currentBytes + d

\* What the memory loop of a generation finds in g.state in its first
\* iteration, g.state.lastTickTime = time.Now() done.
FirstIteration(hs, s, t) ==
    IF hs.firstTick /= -1 THEN hs
    ELSE [hs EXCEPT !.firstTick = s.currentTick,
                    !.firstStart = s.startTime,
                    !.firstLast = t]

\* generateVaryingMemory: one iteration of the loop body, its sleep of
\* TICK_INTERVAL included.  make() panics on a negative capacity, g.tick()
\* panics when ticksPerPeriod is 0.
MemTick(h) ==
    /\ ~crashed
    /\ UNCHANGED duty
    /\ loopPc[h].mem = "body"
    /\ hist' = [hist EXCEPT ![h] = FirstIteration(hist[h], state, now)]
    /\ \E d \in delta(getVarianceFuncByName(cfg), state) :
         LET n == newMemLen(state, d) IN
         IF n < 0
         THEN /\ crashed' = TRUE
              /\ loopPc' = [loopPc EXCEPT ![h].mem = "panic"]
              /\ state' = [state EXCEPT !.lastTickTime = now]
              /\ UNCHANGED <<lastDelta, nTicks, now>>
         ELSE /\ lastDelta' = d
              /\ nTicks' = nTicks + 1
              /\ IF state.ticksPerPeriod = 0
                 THEN /\ state' = [state EXCEPT !.lastTickTime = now,
                                                !.currentBytes = n]
                      /\ crashed' = TRUE
                      /\ loopPc' = [loopPc EXCEPT ![h].mem = "panic"]
                      /\ now' = now
                 ELSE /\ state' = tick([state EXCEPT !.lastTickTime = now,
                                                     !.currentBytes = n])
                      /\ crashed' = crashed
                      /\ loopPc' = [loopPc EXCEPT ![h].mem = "check"]
                      /\ now' = now + 1
    /\ UNCHANGED <<cfg, srv, rdy, running, finished, chan, waitOn, wrkPc, got, pc,
                   sent, loc, wp>>

\* <-g.finished in a loop goroutine: the channel expression is evaluated, then
\* the goroutine takes a buffered signal or blocks on that channel.
Receive(h, who) ==
    IF chan[finished] > 0
    THEN /\ chan' = [chan EXCEPT ![finished] = @ - 1]
         /\ got' = [got EXCEPT ![h][who] = @ + 1]
         /\ loopPc' = [loopPc EXCEPT ![h][who] = "exited"]
         /\ UNCHANGED waitOn
    ELSE /\ loopPc' = [loopPc EXCEPT ![h][who] = "blocked"]
         /\ waitOn' = [waitOn EXCEPT ![h][who] = finished]
         /\ UNCHANGED <<chan, got>>

\* generateVaryingMemory: <-g.finished after the loop
MemRecv(h) ==
    /\ ~crashed
    /\ UNCHANGED <<now, duty, hist>>
    /\ loopPc[h].mem = "recv"
    /\ Receive(h, "mem")
    /\ UNCHANGED <<cfg, srv, rdy, running, finished, state, lastDelta, nTicks,
                   crashed, wrkPc, pc, sent, loc, wp>>

\* var unitHundredsOfMicrosecond float64 = 1000;
\* runMicrosecond := unitHundredsOfMicrosecond * g.cpuPercentage;
\* sleepMicrosecond := unitHundredsOfMicrosecond*100 - runMicrosecond.
\* Both are float64: they are kept in halves of a microsecond.
DutyCycle_Mutant(c) ==
    [runMicrosecond |-> (unitHundredsOfMicrosecond * c.cpuPercentage) \div 1000,
     sleepMicrosecond |-> 2 * unitHundredsOfMicrosecond * 100]
DutyCycle(c) ==
    [runMicrosecond |-> (unitHundredsOfMicrosecond * c.cpuPercentage) \div 1000,
     sleepMicrosecond |-> 2 * unitHundredsOfMicrosecond * 100
                          - (unitHundredsOfMicrosecond * c.cpuPercentage) \div 1000]

\* time.Duration(x) * time.Microsecond for a float64 x given in halves of a
\* microsecond: the conversion truncates toward zero; in microseconds.
DurationMicro(x) == IF x < 0 THEN -((-x) \div 2) ELSE x \div 2

\* A worker busy-waits until time.Since(begin) exceeds this, then sleeps.
BusyWait(d) == DurationMicro(d.runMicrosecond)

\* time.Sleep of a worker: a negative duration returns at once.
WorkerSleep(d) ==
    IF DurationMicro(d.sleepMicrosecond) < 0 THEN 0
    ELSE DurationMicro(d.sleepMicrosecond)

\* generateCPU: the supervisor goroutine computes the duty cycle and starts
\* int(cpuCoresCount) workers
SupStart(h) ==
    /\ ~crashed
    /\ UNCHANGED <<now, hist>>
    /\ loopPc[h].sup = "start"
    /\ duty' = [duty EXCEPT ![h] = DutyCycle(cfg)]
    /\ wrkPc' = [wrkPc EXCEPT ![h] = [i \in 1 .. cfg.cpuCoresCount |-> "check"]]
    /\ loopPc' = [loopPc EXCEPT ![h].sup = "recv"]
    /\ UNCHANGED <<cfg, srv, rdy, running, finished, chan, state, lastDelta, nTicks,
                   crashed, waitOn, got, pc, sent, loc, wp>>

\* generateCPU: <-g.finished in the supervisor
SupRecv(h) ==
    /\ ~crashed
    /\ UNCHANGED <<now, duty, hist>>
    /\ loopPc[h].sup = "recv"
    /\ Receive(h, "sup")
    /\ UNCHANGED <<cfg, srv, rdy, running, finished, state, lastDelta, nTicks,
                   crashed, wrkPc, pc, sent, loc, wp>>

\* A loop goroutine blocked in <-g.finished receives once its channel holds a signal.
LoopWake(h, who) ==
    /\ ~crashed
    /\ UNCHANGED <<now, duty, hist>>
    /\ loopPc[h][who] = "blocked"
    /\ chan[waitOn[h][who]] > 0
    /\ chan' = [chan EXCEPT ![waitOn[h][who]] = @ - 1]
    /\ got' = [got EXCEPT ![h][who] = @ + 1]
    /\ loopPc' = [loopPc EXCEPT ![h][who] = "exited"]
    /\ UNCHANGED <<cfg, srv, rdy, running, finished, state, lastDelta, nTicks,
                   crashed, waitOn, wrkPc, pc, sent, loc, wp>>

\* A duty-cycle worker: the loop condition, for g.running
WorkerCheck(h, i) ==
    /\ ~crashed
    /\ UNCHANGED <<now, duty, hist>>
    /\ i \in DOMAIN wrkPc[h]
    /\ wrkPc[h][i] = "check"
    /\ wrkPc' = [wrkPc EXCEPT ![h][i] = IF running THEN "cycle" ELSE "exited"]
    /\ UNCHANGED <<cfg, srv, rdy, running, finished, chan, state, lastDelta, nTicks,
                   crashed, loopPc, waitOn, got, pc, sent, loc, wp>>

\* A duty-cycle worker: the busy wait and the sleep of one unit
WorkerCycle(h, i) ==
    /\ ~crashed
    /\ UNCHANGED <<now, duty, hist>>
    /\ i \in DOMAIN wrkPc[h]
    /\ wrkPc[h][i] = "cycle"
    /\ wrkPc' = [wrkPc EXCEPT ![h][i] = "check"]
    /\ UNCHANGED <<cfg, srv, rdy, running, finished, chan, state, lastDelta, nTicks,
                   crashed, loopPc, waitOn, got, pc, sent, loc, wp>>

\* The stop handle, deferred by Handle and so invoked when Handle returns or
\* unwinds: g.finished <- struct{}{}, twice.  The send completes when
\* the buffer has room; otherwise the caller blocks on the channel.
StopSend(h) ==
    /\ ~crashed
    /\ UNCHANGED <<now, duty, hist>>
    /\ pc[h] \in {"send1", "send2"}
    /\ loc' = [loc EXCEPT ![h].finishedCalls = IF pc[h] = "send1" THEN @ + 1 ELSE @]
    /\ IF chan[finished] < FinishedCap
       THEN /\ chan' = [chan EXCEPT ![finished] = @ + 1]
            /\ sent' = [sent EXCEPT ![h] = @ + 1]
            /\ pc' = [pc EXCEPT ![h] = IF pc[h] = "send1" THEN "send2" ELSE "clear"]
            /\ UNCHANGED waitOn
       ELSE /\ pc' = [pc EXCEPT ![h] = "sendblocked"]
            /\ waitOn' = [waitOn EXCEPT ![h].stop = finished]
            /\ UNCHANGED <<chan, sent>>
    /\ UNCHANGED <<cfg, srv, rdy, running, finished, state, lastDelta, nTicks,
                   crashed, loopPc, wrkPc, got, wp>>

\* A stop handle blocked in a send completes it once its channel has room.
StopWake(h) ==
    /\ ~crashed
    /\ pc[h] = "sendblocked"
    /\ chan[waitOn[h].stop] < FinishedCap
    /\ chan' = [chan EXCEPT ![waitOn[h].stop] = @ + 1]
    /\ sent' = [sent EXCEPT ![h] = @ + 1]
    /\ pc' = [pc EXCEPT ![h] = IF sent[h] = 0 THEN "send2" ELSE "clear"]
    /\ UNCHANGED <<cfg, srv, rdy, running, finished, state, lastDelta, nTicks,
                   crashed, loopPc, waitOn, wrkPc, got, loc, wp, now, duty, hist>>

\* The stop handle: g.running = false; Handle has returned.  A panic that
\* unwound Handle now ends the process.
StopClear(h) ==
    /\ ~crashed
    /\ UNCHANGED <<now, duty, hist>>
    /\ pc[h] = "clear"
    /\ running' = FALSE
    /\ pc' = [pc EXCEPT ![h] = "done"]
    /\ crashed' = (loc[h].ret.kind = "panic")
    /\ UNCHANGED <<cfg, srv, rdy, finished, chan, state, lastDelta, nTicks,
                   loopPc, waitOn, wrkPc, got, sent, loc, wp>>

\* ========================================================= worker pool
\* worker.New(workerCount, operation) and Do(tasks): a worker count below 1 is
\* a configuration error and nothing is dispatched; otherwise
\* min(workerCount, len(tasks)) workers pull the tasks from a shared queue and
\* each result goes to the slot of its task's position.
EmptySlot == [URI |-> [scheme |-> "", id |-> 0], via |-> "", outcome |-> "empty"]

PoolDo_Mutant(workerCount, tasks) ==
    IF workerCount < 0
    THEN [NoPool EXCEPT !.state = "returned", !.err = "config"]
    ELSE [state |-> "running",
          queue |-> [i \in 1 .. Len(tasks) |-> i],
          busy |-> [w \in 1 .. Min(workerCount, Len(tasks)) |-> 0],
          slots |-> [i \in 1 .. Len(tasks) |-> EmptySlot],
          calls |-> [i \in 1 .. Len(tasks) |-> 0],
          done |-> <<>>,
          failed |-> 0,
          err |-> "nil"]
PoolDo(workerCount, tasks) ==
    IF workerCount < 1
    THEN [NoPool EXCEPT !.state = "returned", !.err = "config"]
    ELSE [state |-> "running",
          queue |-> [i \in 1 .. Len(tasks) |-> i],
          busy |-> [w \in 1 .. Min(workerCount, Len(tasks)) |-> 0],
          slots |-> [i \in 1 .. Len(tasks) |-> EmptySlot],
          calls |-> [i \in 1 .. Len(tasks) |-> 0],
          done |-> <<>>,
          failed |-> 0,
          err |-> "nil"]

\* The operation Handle gives the pool: workerHTTP for an "http://" URI,
\* workerGRPC for any other; out is what the upstream call returns.
Operation(uri, out) ==
    [URI |-> uri,
     via |-> IF uri.scheme = "http://" THEN "workerHTTP" ELSE "workerGRPC",
     outcome |-> out]

\* A pool worker pulls the next task from the queue and invokes the operation.
PoolTakeOf(p, w) ==
    [p EXCEPT !.busy[w] = Head(p.queue),
              !.queue = Tail(p.queue),
              !.calls[Head(p.queue)] = @ + 1]

\* The operation of worker w returns r: the result goes to its task's slot.
PoolFinishOf_Mutant(p, w, r) ==
    [p EXCEPT !.slots[Len(p.done) + 1] = r,
              !.done = Append(@, p.busy[w]),
              !.failed = IF r.outcome = "ok" THEN @ ELSE @ + 1,
              !.busy[w] = 0]
PoolFinishOf(p, w, r) ==
    [p EXCEPT !.slots[p.busy[w]] = r,
              !.done = Append(@, p.busy[w]),
              !.failed = IF r.outcome = "ok" THEN @ ELSE @ + 1,
              !.busy[w] = 0]

\* Do returns once the queue is empty and every worker is idle.
PoolComplete_Mutant(p) ==
    \/ p.state = "returned"
    \/ /\ p.state = "running"
       /\ \/ p.failed > 0
          \/ /\ p.queue = <<>>
             /\ \A w \in DOMAIN p.busy : p.busy[w] = 0
PoolComplete(p) ==
    \/ p.state = "returned"
    \/ /\ p.state = "running"
       /\ p.queue = <<>>
       /\ \A w \in DOMAIN p.busy : p.busy[w] = 0

\* The aggregate error of Do: non-nil iff some task's operation returned an error.
PoolErr(p) ==
    IF p.err /= "nil" THEN p.err
    ELSE IF \E i \in DOMAIN p.slots : p.slots[i].outcome \in {"err", "errnil"}
         THEN "aggregate" ELSE "nil"

PoolTake(h, w) ==
    /\ ~crashed
    /\ pc[h] = "pool"
    /\ wp[h].state = "running"
    /\ w \in DOMAIN wp[h].busy
    /\ wp[h].busy[w] = 0
    /\ wp[h].queue /= <<>>
    /\ wp' = [wp EXCEPT ![h] = PoolTakeOf(wp[h], w)]
    /\ UNCHANGED <<cfg, srv, rdy, crashed, pc, loc>>
    /\ UNCHANGED genVars

PoolFinish(h, w) ==
    /\ ~crashed
    /\ pc[h] = "pool"
    /\ wp[h].state = "running"
    /\ w \in DOMAIN wp[h].busy
    /\ wp[h].busy[w] /= 0
    /\ \E out \in OpOutcomes :
         wp' = [wp EXCEPT ![h] =
                  PoolFinishOf(wp[h], w,
                               Operation(srv.upstreamURIs[wp[h].busy[w]], out))]
    /\ UNCHANGED <<cfg, srv, rdy, crashed, pc, loc>>
    /\ UNCHANGED genVars

\* ============================================================== Handle
\* if er := f.errorInjector.Do(); er != nil { ... return nil, s.Err() }
InjectOf(l, er) ==
    [l EXCEPT !.injectCalls = @ + 1,
              !.er = er,
              !.ret = IF er = NoError THEN @
                      ELSE [kind |-> "injected", Code |-> er.Code, Error |-> er.Error]]

HandleInject_Mutant(h) ==
    /\ ~crashed
    /\ pc[h] = "inject"
    /\ \E er \in InjectorOutcomes :
         /\ loc' = [loc EXCEPT ![h] = InjectOf(loc[h], er)]
         /\ pc' = [pc EXCEPT ![h] = "fanout"]
    /\ UNCHANGED <<cfg, srv, rdy, crashed, wp>>
    /\ UNCHANGED genVars
HandleInject(h) ==
    /\ ~crashed
    /\ pc[h] = "inject"
    /\ \E er \in InjectorOutcomes :
         /\ loc' = [loc EXCEPT ![h] = InjectOf(loc[h], er)]
         /\ pc' = [pc EXCEPT ![h] = IF loc'[h].er = NoError THEN "fanout" ELSE "send1"]
    /\ UNCHANGED <<cfg, srv, rdy, crashed, wp>>
    /\ UNCHANGED genVars

\* if len(f.upstreamURIs) > 0 { wp := worker.New(...); err := wp.Do(f.upstreamURIs)
HandleFanOut(h) ==
    /\ ~crashed
    /\ pc[h] = "fanout"
    /\ IF Len(srv.upstreamURIs) > 0
       THEN /\ wp' = [wp EXCEPT ![h] = PoolDo(srv.workerCount, srv.upstreamURIs)]
            /\ pc' = [pc EXCEPT ![h] = "pool"]
       ELSE /\ pc' = [pc EXCEPT ![h] = "duration"]
            /\ UNCHANGED wp
    /\ UNCHANGED <<cfg, srv, rdy, crashed, loc>>
    /\ UNCHANGED genVars

\* for _, v := range wp.Responses() { resp.AppendUpstream(v.URI, *v.Response) }:
\* the children appended, up to the first result whose Response is nil (the
\* dereference panics there).
RECURSIVE AppendUpstreams(_, _)
AppendUpstreams(slots, i) ==
    IF i > Len(slots) \/ slots[i].outcome = "errnil"
    THEN <<>>
    ELSE <<slots[i]>> \o AppendUpstreams(slots, i + 1)

\* err := wp.Do(...); if err != nil { upstreamError = err }; then the loop above
CollectOf_Mutant(l, p) ==
    [l EXCEPT !.upstreamError = "nil",
              !.children = AppendUpstreams(p.slots, 1),
              !.ret = IF Len(AppendUpstreams(p.slots, 1)) < Len(p.slots)
                      THEN [kind |-> "panic", Code |-> 0, Error |-> "nil"]
                      ELSE @]
CollectOf(l, p) ==
    [l EXCEPT !.upstreamError = PoolErr(p),
              !.children = AppendUpstreams(p.slots, 1),
              !.ret = IF Len(AppendUpstreams(p.slots, 1)) < Len(p.slots)
                      THEN [kind |-> "panic", Code |-> 0, Error |-> "nil"]
                      ELSE @]

HandleCollect(h) ==
    /\ ~crashed
    /\ pc[h] = "pool"
    /\ PoolComplete(wp[h])
    /\ loc' = [loc EXCEPT ![h] = CollectOf(loc[h], wp[h])]
    /\ wp' = [wp EXCEPT ![h].state = "returned"]
    /\ pc' = [pc EXCEPT ![h] = IF loc'[h].ret.kind = "panic" THEN "send1" ELSE "duration"]
    /\ UNCHANGED <<cfg, srv, rdy, crashed>>
    /\ UNCHANGED genVars

\* d := f.duration.Calculate(); et := time.Since(ts); rd := d - et; the upstream
\* error is returned before the sleep; otherwise if rd > 0 { time.Sleep(rd) }
DurationOf(l, d, et) ==
    IF l.upstreamError /= "nil"
    THEN [l EXCEPT !.rd = d - et,
                   !.ret = [kind |-> "upstream", Code |-> CodeInternal,
                            Error |-> l.upstreamError]]
    ELSE [l EXCEPT !.rd = d - et,
                   !.slept = IF d - et > 0 THEN d - et ELSE 0,
                   !.sleeps = IF d - et > 0 THEN @ + 1 ELSE @,
                   !.ret = [kind |-> "ok", Code |-> 0, Error |-> "nil"]]

HandleDuration_Mutant(h) ==
    /\ ~crashed
    /\ pc[h] = "duration"
    /\ \E d \in Durations, et \in Elapsed :
         loc' = [loc EXCEPT ![h] = DurationOf(loc[h], d, et)]
    /\ pc' = [pc EXCEPT ![h] = IF loc'[h].ret.kind = "upstream" THEN "done" ELSE "send1"]
    /\ UNCHANGED <<cfg, srv, rdy, crashed, wp>>
    /\ UNCHANGED genVars
HandleDuration(h) ==
    /\ ~crashed
    /\ pc[h] = "duration"
    /\ \E d \in Durations, et \in Elapsed :
         loc' = [loc EXCEPT ![h] = DurationOf(loc[h], d, et)]
    /\ pc' = [pc EXCEPT ![h] = "send1"]
    /\ UNCHANGED <<cfg, srv, rdy, crashed, wp>>
    /\ UNCHANGED genVars

\* ====================================================== specifications
\* The generator under one request without upstreams, over every generator
\* configuration.
InitGen ==
    \E c \in {g \in GenConfigs : g.cpuPercentage = HalfPercent} :
        InitWith(c, [upstreamURIs |-> <<>>, workerCount |-> 1])

NextGen ==
    \E h \in Handlers :
        \/ GenerateMake(h)
        \/ GenerateStart(h)
        \/ MemStart(h)
        \/ MemCheck(h)
        \/ MemTick(h)
        \/ MemRecv(h)
        \/ SupStart(h)
        \/ SupRecv(h)
        \/ \E who \in {"mem", "sup"} : LoopWake(h, who)
        \/ \E i \in 1 .. MaxCores + 1 : WorkerCheck(h, i)
        \/ \E i \in 1 .. MaxCores + 1 : WorkerCycle(h, i)
        \/ HandleInject(h)
        \/ HandleFanOut(h)
        \/ HandleDuration(h)
        \/ StopSend(h)
        \/ StopClear(h)

SpecGen == InitGen /\ [][NextGen]_vars

\* Every goroutine that can take a step eventually takes one.
FairGen ==
    \A h \in Handlers :
        /\ WF_vars(GenerateMake(h) \/ GenerateStart(h) \/ HandleInject(h)
                   \/ HandleFanOut(h) \/ HandleDuration(h) \/ StopSend(h)
                   \/ StopClear(h))
        /\ WF_vars(MemStart(h) \/ MemCheck(h) \/ MemTick(h) \/ MemRecv(h) \/ LoopWake(h, "mem"))
        /\ WF_vars(SupStart(h) \/ SupRecv(h) \/ LoopWake(h, "sup"))
        /\ \A i \in 1 .. MaxCores + 1 :
               WF_vars(WorkerCheck(h, i) \/ WorkerCycle(h, i))

FairSpecGen == SpecGen /\ FairGen

\* The request handler with its upstream fan-out, over every server
\* configuration, the generator running beside it.
HandleGenConfigs ==
    {c \in GenConfigs :
        /\ c.cpuCoresCount = 1
        /\ c.cpuPercentage = HalfPercent
        /\ c.memoryVariance = 50
        /\ c.memoryVarianceFun = "sine"
        /\ c.memoryVariancePeriod = 1}

Init == \E c \in HandleGenConfigs, s \in SrvConfigs : InitWith(c, s)

Next ==
    \/ NextGen
    \/ \E h \in Handlers :
        \/ \E w \in 1 .. MaxWorkers + 1 : PoolTake(h, w)
        \/ \E w \in 1 .. MaxWorkers + 1 : PoolFinish(h, w)
        \/ HandleCollect(h)

Spec == Init /\ [][Next]_vars

\* The readiness handler alone, polled while time passes, over every delay.
ReadyHandle ==
    /\ ~crashed
    /\ rdy' = ReadyHandleOf(rdy)
    /\ UNCHANGED <<cfg, srv, crashed, pc, loc, wp>>
    /\ UNCHANGED genVars

\* Time passes, up to one unit beyond the longest delay.
ReadyTick ==
    /\ ~crashed
    /\ rdy.elapsed < MaxDelay + 1
    /\ rdy' = [rdy EXCEPT !.elapsed = @ + 1]
    /\ UNCHANGED <<cfg, srv, crashed, pc, loc, wp>>
    /\ UNCHANGED genVars

InitReady ==
    \E c \in HandleGenConfigs, code \in ReadyCodes, delay \in 0 .. MaxDelay :
        InitOf(c, [upstreamURIs |-> <<>>, workerCount |-> 1], NewReady(code, delay))

NextReady == ReadyHandle \/ ReadyTick

SpecReady == InitReady /\ [][NextReady]_vars

\* The clock advances and the handler keeps being polled.
FairSpecReady == SpecReady /\ WF_vars(ReadyTick) /\ WF_vars(ReadyHandle)

\* The variance models alone, over one period of ticks: delta(g) then g.tick()
\* as the memory loop calls them, without the allocation, over every name,
\* percentage and period.
VarianceConfigs ==
    [cpuCoresCount : {0},
     cpuPercentage : {HalfPercent},
     memoryMBytes : MemoryMBytes,
     memoryVariance : Variances \cup {10, 33},
     memoryVarianceFun : VarianceFuns \cup {"Sine", "step"},
     memoryVariancePeriod : 0 .. MaxPeriod + 1]

InitVariance ==
    \E c \in VarianceConfigs :
        InitWith(c, [upstreamURIs |-> <<>>, workerCount |-> 1])

VarianceStep ==
    /\ ~crashed
    /\ nTicks = 0 \/ nTicks < state.ticksPerPeriod
    /\ lastDelta' \in delta(getVarianceFuncByName(cfg), state)
    /\ nTicks' = nTicks + 1
    /\ IF state.ticksPerPeriod = 0
       THEN /\ crashed' = TRUE
            /\ UNCHANGED state
       ELSE /\ crashed' = crashed
            /\ state' = tick(state)
    /\ UNCHANGED <<cfg, srv, rdy, running, finished, chan, loopPc, waitOn, wrkPc,
                   got, pc, sent, loc, wp, now, duty, hist>>

SpecVariance == InitVariance /\ [][VarianceStep]_vars

\* The duty cycle, over every percentage and core count, under one request.
CPUConfigs ==
    {c \in GenConfigs :
        /\ c.cpuCoresCount >= 1
        /\ c.memoryVariance = 0
        /\ c.memoryVarianceFun = ""
        /\ c.memoryVariancePeriod = 1}

InitCPU == \E c \in CPUConfigs : InitWith(c, [upstreamURIs |-> <<>>, workerCount |-> 1])

SpecCPU == InitCPU /\ [][NextGen]_vars

\* Two requests sharing the generator, one after the other or overlapping,
\* with no CPU load configured: the memory loops and the stop handles.
MultiConfigs ==
    {c \in GenConfigs :
        /\ c.cpuCoresCount = 0
        /\ c.cpuPercentage = HalfPercent
        /\ c.memoryVariance = 50
        /\ c.memoryVarianceFun = "linear"
        /\ c.memoryVariancePeriod = 1}

InitMulti ==
    \E c \in MultiConfigs : InitWith(c, [upstreamURIs |-> <<>>, workerCount |-> 1])

NextMulti ==
    \E h \in Requests :
        \/ GenerateMake(h)
        \/ GenerateStart(h)
        \/ MemStart(h)
        \/ MemCheck(h)
        \/ MemTick(h)
        \/ MemRecv(h)
        \/ LoopWake(h, "mem")
        \/ HandleInject(h)
        \/ HandleFanOut(h)
        \/ HandleDuration(h)
        \/ StopSend(h)
        \/ StopWake(h)
        \/ StopClear(h)

SpecMulti == InitMulti /\ [][NextMulti]_vars

\* The requests meet no injected error and one duration budget: the
\* injector returns nil, Calculate() 2 and time.Since(ts) 1.
QuietInputs == \A h \in Requests : loc[h].er = NoError /\ loc[h].rd \in {0, 1}

\* Two overlapping requests under those inputs.
NextOverlap == NextMulti /\ QuietInputs'

SpecOverlap == InitMulti /\ [][NextOverlap]_vars

\* Every request's goroutine and every memory loop that can take a step
\* eventually takes one.
FairOverlap ==
    \A h \in Requests :
        /\ WF_vars((GenerateMake(h) \/ GenerateStart(h) \/ HandleInject(h)
                    \/ HandleFanOut(h) \/ HandleDuration(h) \/ StopSend(h)
                    \/ StopWake(h) \/ StopClear(h))
                   /\ QuietInputs')
        /\ WF_vars(MemStart(h) \/ MemCheck(h) \/ MemTick(h) \/ MemRecv(h)
                   \/ LoopWake(h, "mem"))

FairSpecOverlap == SpecOverlap /\ FairOverlap

\* Two requests one after the other on a generator with one core: request 1
\* first, Generate() of request 2 only once the stop handle of request 1 has
\* returned.  The memory loops make MaxSeqTicks allocations at most between
\* them (a request is short beside TICK_INTERVAL); a loop that finds
\* g.running true after that stays at its loop condition.
SeqConfigs ==
    {c \in GenConfigs :
        /\ c.cpuCoresCount = 1
        /\ c.cpuPercentage = HalfPercent
        /\ c.memoryVariance = 0
        /\ c.memoryVarianceFun = ""
        /\ c.memoryVariancePeriod = 1}

InitSeq ==
    \E c \in SeqConfigs : InitWith(c, [upstreamURIs |-> <<>>, workerCount |-> 1])

NextSeq ==
    /\ \E h \in Requests :
           \/ (h = 1 \/ pc[1] = "done") /\ GenerateMake(h)
           \/ GenerateStart(h)
           \/ MemStart(h)
           \/ (running => nTicks < MaxSeqTicks) /\ MemCheck(h)
           \/ MemTick(h)
           \/ MemRecv(h)
           \/ SupStart(h)
           \/ SupRecv(h)
           \/ \E who \in {"mem", "sup"} : LoopWake(h, who)
           \/ \E i \in 1 .. MaxCores + 1 : WorkerCheck(h, i)
           \/ \E i \in 1 .. MaxCores + 1 : WorkerCycle(h, i)
           \/ HandleInject(h)
           \/ HandleFanOut(h)
           \/ HandleDuration(h)
           \/ StopSend(h)
           \/ StopClear(h)
    /\ QuietInputs'

SpecSeq == InitSeq /\ [][NextSeq]_vars

FairSeq ==
    \A h \in Requests :
        /\ WF_vars((((h = 1 \/ pc[1] = "done") /\ GenerateMake(h))
                    \/ GenerateStart(h) \/ HandleInject(h) \/ HandleFanOut(h)
                    \/ HandleDuration(h) \/ StopSend(h) \/ StopClear(h))
                   /\ QuietInputs')
        /\ WF_vars(MemStart(h) \/ ((running => nTicks < MaxSeqTicks) /\ MemCheck(h))
                   \/ MemTick(h) \/ MemRecv(h) \/ LoopWake(h, "mem"))
        /\ WF_vars(SupStart(h) \/ SupRecv(h) \/ LoopWake(h, "sup"))
        /\ \A i \in 1 .. MaxCores + 1 :
               WF_vars(WorkerCheck(h, i) \/ WorkerCycle(h, i))

FairSpecSeq == SpecSeq /\ FairSeq

\* ============================================================== claims
Returning == {"send1", "send2", "sendblocked", "clear", "done"}

LoopsStarted(h) == Cardinality({who \in {"mem", "sup"} : loopPc[h][who] /= "none"})

AllExited(h) ==
    /\ loopPc[h].mem = "exited"
    /\ loopPc[h].sup = "exited"
    /\ Len(wrkPc[h]) = cfg.cpuCoresCount
    /\ \A i \in DOMAIN wrkPc[h] : wrkPc[h][i] = "exited"

\* C1: with one Generate() and one invocation of its stop handle, each of the
\* handle's two sends finds room in the channel's buffer, so the caller is never
\* blocked, whatever the loops are doing and for every core count, 0 included.
C1_StopNeverBlocks ==
    \A h \in Handlers :
        /\ pc[h] /= "sendblocked"
        /\ pc[h] \in {"send1", "send2"} => chan[finished] < FinishedCap

\* The handle has returned with no CPU loop started and the memory loop still
\* in an iteration.
C1_Witness ==
    \E h \in Handlers :
        /\ pc[h] = "done"
        /\ sent[h] = 2
        /\ cfg.cpuCoresCount = 0
        /\ loopPc[h].mem = "body"

\* C2: once the stop handle of a generation with N > 0 cores has returned, the
\* memory loop, the supervisor and the N workers all eventually exit, the
\* memory loop and the supervisor having received exactly one signal each.
C2_LoopsTerminate ==
    \A h \in Handlers :
        (pc[h] = "done" /\ cfg.cpuCoresCount > 0)
            ~> (AllExited(h) /\ got[h].mem = 1 /\ got[h].sup = 1)

\* C3: a stop handle that has returned has sent as many signals as loops were
\* started, and no signal is left in the channel once those loops have exited.
C3_SignalsMatchLoops ==
    \A h \in Handlers :
        /\ pc[h] = "done" => sent[h] = LoopsStarted(h)
        /\ (pc[h] = "done" /\ \A who \in {"mem", "sup"} :
                                  loopPc[h][who] \in {"none", "exited"})
               => chan[h] = 0

\* C4: after every allocation the recorded size is baseline + the delta of
\* that tick, whatever the previous allocation was.
C4_AllocationFromBaseline ==
    nTicks > 0 => state.currentBytes = state.baselineBytes + lastDelta

\* C5: the tick index is always within [0, ticksPerPeriod).
C5_TickInRange ==
    /\ 0 <= state.currentTick
    /\ state.currentTick < state.ticksPerPeriod

\* C6: Handle consults the error injector exactly once, before any fan-out;
\* on an injected error no pool is created, no upstream call is made, nothing
\* is slept, and the returned status carries the injected code and error.
C6_InjectShortCircuits ==
    \A h \in Handlers :
        /\ loc[h].injectCalls <= 1
        /\ pc[h] \notin {"idle", "generate", "inject"} => loc[h].injectCalls = 1
        /\ wp[h].state /= "none" => (loc[h].injectCalls = 1 /\ loc[h].er = NoError)
        /\ loc[h].er /= NoError =>
               /\ wp[h] = NoPool
               /\ loc[h].children = <<>>
               /\ loc[h].sleeps = 0
               /\ loc[h].slept = 0
               /\ pc[h] \in Returning
               /\ loc[h].ret = [kind |-> "injected", Code |-> loc[h].er.Code,
                                Error |-> loc[h].er.Error]

\* Handle has returned an injected error, with upstream URIs configured.
C6_Witness ==
    \E h \in Handlers :
        /\ pc[h] = "done"
        /\ loc[h].ret.kind = "injected"
        /\ Len(srv.upstreamURIs) > 0

\* C7: every request that computed its duration budget, after no upstream
\* error or after an aggregate error of the fan-out, slept for exactly
\* max(0, D - E), rd being D - E.
C7_SleepsRemaining ==
    \A h \in Handlers :
        (/\ pc[h] \in Returning
         /\ loc[h].ret.kind \in {"ok", "upstream"}
         /\ loc[h].upstreamError \in {"nil", "aggregate"})
            => loc[h].slept = (IF loc[h].rd > 0 THEN loc[h].rd ELSE 0)

\* C8: when Do has finished under a worker count of at least 1, there is one
\* result per submitted task and result i is the result of task i.
C8_ResultsInTaskOrder ==
    \A h \in Handlers :
        (srv.workerCount >= 1 /\ wp[h].state /= "none" /\ PoolComplete(wp[h]))
            => /\ Len(wp[h].slots) = Len(srv.upstreamURIs)
               /\ \A i \in DOMAIN wp[h].slots :
                      /\ wp[h].slots[i].outcome /= "empty"
                      /\ wp[h].slots[i].URI = srv.upstreamURIs[i]

\* Do has returned after the second task completed before the first, under as
\* many workers as tasks or more.
C8_Witness ==
    \E h \in Handlers :
        /\ wp[h].state = "returned"
        /\ srv.workerCount >= Len(srv.upstreamURIs)
        /\ Len(wp[h].done) >= 2
        /\ wp[h].done[1] = 2
        /\ wp[h].done[2] = 1

\* C9: no task's operation is invoked twice, and when Do has returned every
\* task's operation has been invoked once and has finished, failures or not.
C9_EachTaskOnce ==
    \A h \in Handlers :
        /\ \A i \in DOMAIN wp[h].calls : wp[h].calls[i] <= 1
        /\ (srv.workerCount >= 1 /\ wp[h].state = "returned")
               => /\ DOMAIN wp[h].calls = DOMAIN srv.upstreamURIs
                  /\ \A i \in DOMAIN wp[h].calls : wp[h].calls[i] = 1
                  /\ Len(wp[h].done) = Len(srv.upstreamURIs)
                  /\ \A w \in DOMAIN wp[h].busy : wp[h].busy[w] = 0

\* Do has returned; the first task failed and a later one succeeded.
C9_Witness ==
    \E h \in Handlers :
        /\ wp[h].state = "returned"
        /\ Len(wp[h].slots) >= 2
        /\ wp[h].slots[1].outcome = "err"
        /\ wp[h].slots[2].outcome = "ok"
        /\ wp[h].done[1] = 1

\* C10: under a worker count of at least 1, the error Handle gets from Do is
\* non-nil iff at least one operation returned an error.
C10_AggregateIffFailure ==
    \A h \in Handlers :
        (srv.workerCount >= 1 /\ wp[h].state = "returned")
            => ((loc[h].upstreamError /= "nil") <=> (wp[h].failed > 0))

\* Do has returned an aggregate error with one task failed and one succeeded.
C10_Witness ==
    \E h \in Handlers :
        /\ wp[h].state = "returned"
        /\ loc[h].upstreamError = "aggregate"
        /\ wp[h].failed = 1
        /\ Len(wp[h].slots) = 2

\* C11: when Handle has collected the results of a fan-out that ran (worker
\* count of at least 1), its response has exactly one child per configured URI,
\* in the configured order, whatever the outcome of each upstream task, a nil
\* response with an error included.
C11_OneChildPerURI ==
    \A h \in Handlers :
        (srv.workerCount >= 1 /\ wp[h].state = "returned")
            => /\ Len(loc[h].children) = Len(srv.upstreamURIs)
               /\ \A i \in DOMAIN loc[h].children :
                      loc[h].children[i].URI = srv.upstreamURIs[i]

\* C12: a pool with a worker count below 1 returns a configuration error from
\* Do at once, invokes no operation and fills no result, for every task list;
\* Handle gets that error and appends no child.
C12_NoWorkersFailsFast ==
    \A h \in Handlers :
        (srv.workerCount < 1 /\ wp[h].state /= "none")
            => /\ wp[h].state = "returned"
               /\ wp[h].err = "config"
               /\ wp[h].calls = <<>>
               /\ wp[h].done = <<>>
               /\ wp[h].slots = <<>>
               /\ loc[h].children = <<>>
               /\ pc[h] /= "pool" => loc[h].upstreamError = "config"

\* Handle has returned the configuration error of a pool of 0 workers that
\* was given two tasks.
C12_Witness ==
    \E h \in Handlers :
        /\ pc[h] = "done"
        /\ srv.workerCount = 0
        /\ Len(srv.upstreamURIs) = 2
        /\ loc[h].ret = [kind |-> "upstream", Code |-> CodeInternal,
                         Error |-> "config"]

\* C13: the variance model returns 0 at every tick when the variance
\* percentage is 0, whatever the name, and when the name is none of "linear",
\* "random", "sine" (the empty name included), whatever the percentage.
C13_ZeroVariance ==
    (cfg.memoryVariance = 0 \/ cfg.memoryVarianceFun \notin {"linear", "random", "sine"})
        => /\ delta(getVarianceFuncByName(cfg), state) = {0}
           /\ nTicks > 0 => lastDelta = 0

\* The model of an unrecognised name has been called twice under a variance
\* of 100 percent.
C13_Witness ==
    /\ nTicks >= 2
    /\ cfg.memoryVariance = 100
    /\ cfg.memoryVarianceFun = "step"
    /\ lastDelta = 0

\* The linear model is the one called, over a period of n >= 2 ticks.
LinearApplies ==
    /\ cfg.memoryVarianceFun = "linear"
    /\ cfg.memoryVariance > 0
    /\ state.ticksPerPeriod >= 2

\* C14: over a period of n >= 2 ticks the linear model's delta, in whole
\* bytes, is within [-max, +max] at every tick t in [0, n), is -max at t = 0
\* and +max at t = n - 1, and never decreases from one tick to the next.
C14_LinearRamp ==
    /\ [](LinearApplies /\ nTicks > 0 =>
            /\ 100 * Abs(lastDelta) <= state.maxVarianceBytes
            /\ nTicks = 1 => lastDelta = -(state.maxVarianceBytes \div 100)
            /\ nTicks = state.ticksPerPeriod
                   => lastDelta = state.maxVarianceBytes \div 100)
    /\ [][LinearApplies /\ nTicks > 0 /\ nTicks' = nTicks + 1
             => lastDelta' >= lastDelta]_vars

\* The linear model has been called at the last tick of a period of 6 ticks,
\* under a maximum variance that is not a whole number of bytes.
C14_Witness ==
    /\ LinearApplies
    /\ state.ticksPerPeriod = 6
    /\ nTicks = 6
    /\ cfg.memoryVariance = 33
    /\ lastDelta = 346030

MemAlive(h) == loopPc[h].mem \in {"start", "check", "body", "recv", "blocked"}

\* C16: at most one memory loop of the generator is alive at any time, also
\* when requests sharing the generator overlap and when Generate() is called
\* right after the previous stop handle returned.
C16_OneMemoryLoop == Cardinality({h \in Requests : MemAlive(h)}) <= 1

\* C17: with a variance percentage in [0, 100], the recorded allocation size
\* is never negative and stays within baseline -/+ maxVarianceBytes, for every
\* variance model and any number of ticks.
C17_AllocationWithinBand ==
    /\ state.currentBytes >= 0
    /\ 100 * state.baselineBytes - state.maxVarianceBytes <= 100 * state.currentBytes
    /\ 100 * state.currentBytes <= 100 * state.baselineBytes + state.maxVarianceBytes

\* C18: for every period, 0 included, ticksPerPeriod is
\* max(2, period * 1000 / 500) and so never below 2.
C18_TicksPerPeriodAtLeastTwo ==
    /\ state.ticksPerPeriod >= 2
    /\ state.ticksPerPeriod =
           (IF (cfg.memoryVariancePeriod * 1000) \div TICK_INTERVAL < 2 THEN 2
            ELSE (cfg.memoryVariancePeriod * 1000) \div TICK_INTERVAL)

\* C19 as stated: at the first iteration of each generation's memory loop the
\* tick index is 0 and the start and last-tick times are not older than the
\* Generate() call, whatever an earlier generation did.
C19_GenerateResetsPhase ==
    \A h \in Requests :
        hist[h].firstTick /= -1
            => /\ hist[h].firstTick = 0
               /\ hist[h].firstStart >= hist[h].genAt
               /\ hist[h].firstLast >= hist[h].genAt

\* C19: at the first iteration of each generation's memory loop the start and
\* last-tick times are not older than the Generate() call; the tick index is
\* the one g.state holds, within the period.
C19_GenerateRefreshesTimes ==
    \A h \in Requests :
        hist[h].firstTick /= -1
            => /\ hist[h].firstTick \in 0 .. state.ticksPerPeriod - 1
               /\ hist[h].firstStart >= hist[h].genAt
               /\ hist[h].firstLast >= hist[h].genAt

\* A generation started after an earlier one had ticked once: its memory loop
\* finds tick index 1 in its first iteration, the times refreshed.
C19_Witness ==
    \E h \in Requests :
        /\ hist[h].genAt >= 1
        /\ hist[h].firstTick = 1
        /\ hist[h].firstStart >= 1
        /\ hist[h].firstLast >= 1

C23_GenerateAndStopOnce ==
    \A h \in Handlers :
        /\ loc[h].generateCalls = (IF pc[h] = "idle" THEN 0 ELSE 1)
        /\ (loc[h].injectCalls > 0 \/ wp[h].state /= "none")
               => (loc[h].generateCalls = 1 /\ loopPc[h].mem /= "none")
        /\ loc[h].finishedCalls <= 1
        /\ pc[h] \notin Returning
               => (loc[h].finishedCalls = 0 /\ sent[h] = 0 /\ loc[h].ret.kind = "none")
        /\ pc[h] \in Returning
               => loc[h].ret.kind \in {"injected", "upstream", "ok", "panic"}
        /\ pc[h] \in {"send2", "sendblocked", "clear", "done"}
               => loc[h].finishedCalls = 1
        /\ pc[h] = "done" => sent[h] = 2

\* Handle has returned the aggregate error of its fan-out and its stop handle
\* has run.
C23_Witness ==
    \E h \in Handlers :
        /\ pc[h] = "done"
        /\ loc[h].ret.kind = "upstream"
        /\ loc[h].upstreamError = "aggregate"
        /\ loc[h].generateCalls = 1
        /\ loc[h].finishedCalls = 1

\* C22: when requests sharing the generator overlap, every stop handle that
\* is invoked eventually returns and every memory loop that was started
\* eventually exits.
C22_OverlappingStopsReturn ==
    \A h \in Requests :
        /\ (pc[h] = "send1") ~> (pc[h] = "done")
        /\ (loopPc[h].mem = "start") ~> (loopPc[h].mem = "exited")

\* C21: with each Generate() called only after the previous stop handle has
\* returned, once a stop handle has returned the memory loop, the supervisor
\* and every worker of its generation eventually exit.
C21_SequentialLoopsTerminate ==
    \A h \in Requests : (pc[h] = "done") ~> AllExited(h)

====
